---------------------------- MODULE Spec2Model ----------------------------
(***************************************************************************)
(* Simhastha Milaap lost-and-found service (src/app.py).                   *)
(*                                                                         *)
(* Three specifications over one set of variables:                         *)
(*   SpecSim    SmartMatcher.calculate_similarity on bounded strings       *)
(*   SpecMatch  SmartMatcher.match_persons / match_items on bounded inputs *)
(*   Spec       the notification pipeline: producers, notification_queue,  *)
(*              notification_worker, WhatsAppNotifier, the notifications   *)
(*              collection                                                 *)
(* Strings are sequences of one-character strings.  Floating-point values  *)
(* are exact rationals [n, d] in lowest terms.                             *)
(***************************************************************************)
EXTENDS Integers, Sequences, FiniteSets, TLC

VARIABLES
    \* ---- SpecSim ----
    sim_a, sim_b,        \* the two arguments of calculate_similarity
    sim_ab, sim_ba,      \* calculate_similarity(a, b), calculate_similarity(b, a)
    sim_pc,              \* "input" | "done"
    \* ---- SpecMatch ----
    m_kind,              \* "person" | "item": which matcher is applied
    m_new,               \* the new report
    m_existing,          \* the list of existing reports handed to the matcher
    m_evals,             \* per existing report: what the loop body did with it
    m_result,            \* the returned list of (report, score)
    m_pc,                \* "input" | "done"
    \* ---- Spec: the notification pipeline ----
    notification_queue,  \* queue.Queue(): the items put and not yet got, oldest first
    notifications,       \* the notifications collection: records in insertion order
    person_reports,      \* the person_reports collection
    item_reports,        \* the item_reports collection
    w_pc,                \* per worker thread: where it is in notification_worker
    w_cur,               \* per worker thread: the task it got (notification_data)
    w_nid,               \* per worker thread: notification_id (0: none inserted)
    w_success,           \* per worker thread: success, the result of the send
    requests,            \* per request slot: the handler running in it and its position
    shutdown,            \* the sentinel has been put
    enqueued,            \* history: the tasks put, in put order
    dispatched,          \* history: tids send_match_notification was called with
    sends,               \* history: the send_whatsapp_message calls, [tid, success]
    results              \* history: tid -> how send_match_notification ended

sim_vars == <<sim_a, sim_b, sim_ab, sim_ba, sim_pc>>
match_vars == <<m_kind, m_new, m_existing, m_evals, m_result, m_pc>>
pipe_vars == <<notification_queue, notifications, person_reports, item_reports,
               w_pc, w_cur, w_nid, w_success, requests, shutdown,
               enqueued, dispatched, sends, results>>
vars == <<sim_vars, match_vars, pipe_vars>>

-----------------------------------------------------------------------------
(* Bounds *)

\* longest string drawn for calculate_similarity in SpecSim
MaxLen == 3

\* longest list of existing reports drawn for the matchers in SpecMatch
MaxExisting == 3

\* number of HTTP requests served in Spec
MaxRequests == 2
MaxDrawn == 2

-----------------------------------------------------------------------------
(* Exact rationals standing for Python floats *)

RECURSIVE GCD(_, _)
GCD(x, y) == IF y = 0 THEN x ELSE GCD(y, x % y)

\* n/d in lowest terms, d > 0, n >= 0
Rat(n, d) == LET g == GCD(n, d) IN [n |-> n \div g, d |-> d \div g]

RAdd(x, y) == Rat(x.n * y.d + y.n * x.d, x.d * y.d)
RMul(x, y) == Rat(x.n * y.n, x.d * y.d)
RDivInt(x, k) == Rat(x.n, x.d * k)
RGt(x, y) == x.n * y.d > y.n * x.d
RLe(x, y) == ~RGt(x, y)
ROne == [n |-> 1, d |-> 1]
RZero == [n |-> 0, d |-> 1]

-----------------------------------------------------------------------------
(* str.lower() *)

UpperToLower ==
    [c \in {"A","B","C","D","E","F","G","H","I","J","K","L","M",
            "N","O","P","Q","R","S","T","U","V","W","X","Y","Z"} |->
        CASE c = "A" -> "a" [] c = "B" -> "b" [] c = "C" -> "c" [] c = "D" -> "d"
          [] c = "E" -> "e" [] c = "F" -> "f" [] c = "G" -> "g" [] c = "H" -> "h"
          [] c = "I" -> "i" [] c = "J" -> "j" [] c = "K" -> "k" [] c = "L" -> "l"
          [] c = "M" -> "m" [] c = "N" -> "n" [] c = "O" -> "o" [] c = "P" -> "p"
          [] c = "Q" -> "q" [] c = "R" -> "r" [] c = "S" -> "s" [] c = "T" -> "t"
          [] c = "U" -> "u" [] c = "V" -> "v" [] c = "W" -> "w" [] c = "X" -> "x"
          [] c = "Y" -> "y" [] c = "Z" -> "z"]

LowerChar(c) == IF c \in DOMAIN UpperToLower THEN UpperToLower[c] ELSE c

lower(s) == [i \in 1..Len(s) |-> LowerChar(s[i])]

-----------------------------------------------------------------------------
(* difflib.SequenceMatcher(None, a, b).ratio(), no junk.  The autojunk      *)
(* heuristic only applies when len(b) >= 200, beyond every string here.    *)
(* Offsets are Python's: a[i] is a[i+1] here, ranges are [lo, hi).         *)

\* length of the common run a[i:], b[j:] inside [.., ahi) x [.., bhi)
RECURSIVE RunLen(_, _, _, _, _, _)
RunLen(a, b, i, j, ahi, bhi) ==
    IF i < ahi /\ j < bhi /\ a[i + 1] = b[j + 1]
    THEN 1 + RunLen(a, b, i + 1, j + 1, ahi, bhi)
    ELSE 0

SetMax(S) == CHOOSE x \in S : \A y \in S : y <= x
SetMin(S) == CHOOSE x \in S : \A y \in S : x <= y

\* find_longest_match: the longest block; of those the one starting earliest
\* in a; of those the one starting earliest in b.  Needs alo < ahi, blo < bhi.
find_longest_match(a, b, alo, ahi, blo, bhi) ==
    LET k == SetMax({RunLen(a, b, i, j, ahi, bhi) : i \in alo..(ahi - 1), j \in blo..(bhi - 1)})
        i == SetMin({x \in alo..(ahi - 1) :
                        \E y \in blo..(bhi - 1) : RunLen(a, b, x, y, ahi, bhi) = k})
        j == SetMin({y \in blo..(bhi - 1) : RunLen(a, b, i, y, ahi, bhi) = k})
    IN  IF k = 0 THEN [i |-> alo, j |-> blo, k |-> 0] ELSE [i |-> i, j |-> j, k |-> k]

\* get_matching_blocks: total size of the blocks found by matching the
\* longest block, then the pieces to its left and to its right
RECURSIVE matched_chars(_, _, _, _, _, _)
matched_chars(a, b, alo, ahi, blo, bhi) ==
    IF alo >= ahi \/ blo >= bhi THEN 0
    ELSE LET m == find_longest_match(a, b, alo, ahi, blo, bhi)
         IN  IF m.k = 0 THEN 0
             ELSE m.k
                  + (IF alo < m.i /\ blo < m.j
                     THEN matched_chars(a, b, alo, m.i, blo, m.j) ELSE 0)
                  + (IF m.i + m.k < ahi /\ m.j + m.k < bhi
                     THEN matched_chars(a, b, m.i + m.k, ahi, m.j + m.k, bhi) ELSE 0)

\* variant: the factor 2 is missing
ratio_not_doubled(a, b) ==
    IF Len(a) + Len(b) = 0 THEN ROne
    ELSE Rat(matched_chars(a, b, 0, Len(a), 0, Len(b)), Len(a) + Len(b))

\* ratio(): 2.0 * matches / length, and 1.0 when both sequences are empty
ratio(a, b) ==
    IF Len(a) + Len(b) = 0 THEN ROne
    ELSE Rat(2 * matched_chars(a, b, 0, Len(a), 0, Len(b)), Len(a) + Len(b))

calculate_similarity(str1, str2) == ratio(lower(str1), lower(str2))

-----------------------------------------------------------------------------
(* SmartMatcher.extract_keywords *)

common_words ==
    {<<"t", "h", "e">>,
     <<"a">>,
     <<"a", "n">>,
     <<"a", "n", "d">>,
     <<"o", "r">>,
     <<"b", "u", "t">>,
     <<"i", "n">>,
     <<"o", "n">>,
     <<"a", "t">>,
     <<"t", "o">>,
     <<"f", "o", "r">>,
     <<"o", "f">>,
     <<"w", "i", "t", "h">>,
     <<"b", "y">>,
     <<"i", "s">>,
     <<"w", "a", "s">>,
     <<"a", "r", "e">>,
     <<"w", "e", "r", "e">>}

\* the characters \w matches, among those the model's texts use
IsWordChar(c) == c \notin {" ", ",", ".", "-"}

\* re.findall(r'\b\w+\b', text): the maximal runs of word characters, in order
RECURSIVE Tokens(_, _, _)
Tokens(text, i, cur) ==
    IF i > Len(text) THEN (IF cur = <<>> THEN <<>> ELSE <<cur>>)
    ELSE IF IsWordChar(text[i]) THEN Tokens(text, i + 1, Append(cur, text[i]))
    ELSE (IF cur = <<>> THEN <<>> ELSE <<cur>>) \o Tokens(text, i + 1, <<>>)

IsKeyword(word) == word \notin common_words /\ Len(word) > 2

extract_keywords(text) == SelectSeq(Tokens(lower(text), 1, <<>>), IsKeyword)

-----------------------------------------------------------------------------
(* SmartMatcher.match_persons and SmartMatcher.match_items *)

\* dict.get(key) is truthy: the field is present and not the empty string
Truthy(x) == x # <<>>

DigitValue ==
    [c \in {"0","1","2","3","4","5","6","7","8","9"} |->
        CASE c = "0" -> 0 [] c = "1" -> 1 [] c = "2" -> 2 [] c = "3" -> 3
          [] c = "4" -> 4 [] c = "5" -> 5 [] c = "6" -> 6 [] c = "7" -> 7
          [] c = "8" -> 8 [] c = "9" -> 9]

\* int(x) succeeds (on the ages the model draws: digit strings and others)
IsInt(s) == Len(s) > 0 /\ \A i \in 1..Len(s) : s[i] \in DOMAIN DigitValue

RECURSIVE IntOf(_)
IntOf(s) ==
    IF s = <<>> THEN 0
    ELSE 10 * IntOf(SubSeq(s, 1, Len(s) - 1)) + DigitValue[s[Len(s)]]

Abs(x) == IF x < 0 THEN -x ELSE x

\* a factor that did not activate
Off == [on |-> FALSE, val |-> RZero]
On(v) == [on |-> TRUE, val |-> v]

\* "if x and y: sim = calculate_similarity(x, y); if sim > least: score += sim * weight"
similarity_factor(x, y, least, weight) ==
    IF Truthy(x) /\ Truthy(y)
    THEN LET sim == calculate_similarity(x, y)
         IN  IF RGt(sim, least) THEN On(RMul(sim, weight)) ELSE Off
    ELSE Off

\* age: both present, both parse, difference at most 5
age_factor(x, y) ==
    IF Truthy(x) /\ Truthy(y) /\ IsInt(x) /\ IsInt(y)
    THEN LET age_diff == Abs(IntOf(x) - IntOf(y))
         IN  IF age_diff <= 5 THEN On(RMul(Rat(10 - age_diff, 10), Rat(2, 10))) ELSE Off
    ELSE Off

gender_factor(x, y) ==
    IF Truthy(x) /\ Truthy(y) /\ lower(x) = lower(y) THEN On(Rat(2, 10)) ELSE Off

\* the keywords of the new description that have a near match (> 0.7)
keyword_matches(new_keywords, existing_keywords) ==
    Cardinality({i \in 1..Len(new_keywords) :
        \E j \in 1..Len(existing_keywords) :
            RGt(calculate_similarity(new_keywords[i], existing_keywords[j]), Rat(7, 10))})

description_factor(x, y, weight) ==
    IF Truthy(x) /\ Truthy(y)
    THEN LET new_keywords == extract_keywords(x)
             existing_keywords == extract_keywords(y)
         IN  IF new_keywords # <<>> /\ existing_keywords # <<>>
             THEN On(RMul(Rat(keyword_matches(new_keywords, existing_keywords),
                              Len(new_keywords)), weight))
             ELSE Off
    ELSE Off

person_factors(new, ex) ==
    << similarity_factor(new.name, ex.name, Rat(6, 10), Rat(4, 10)),
       age_factor(new.age, ex.age),
       gender_factor(new.gender, ex.gender),
       description_factor(new.description, ex.description, Rat(2, 10)),
       similarity_factor(new.location, ex.location, Rat(4, 10), Rat(2, 10)) >>

item_factors(new, ex) ==
    << similarity_factor(new.category, ex.category, Rat(6, 10), Rat(25, 100)),
       similarity_factor(new.color, ex.color, Rat(6, 10), Rat(25, 100)),
       similarity_factor(new.brand, ex.brand, Rat(6, 10), Rat(2, 10)),
       description_factor(new.description, ex.description, Rat(15, 100)),
       similarity_factor(new.location, ex.location, Rat(4, 10), Rat(1, 10)) >>

RECURSIVE SumOn(_)
SumOn(fs) ==
    IF fs = <<>> THEN RZero
    ELSE IF Head(fs).on THEN RAdd(Head(fs).val, SumOn(Tail(fs))) ELSE SumOn(Tail(fs))

CountOn(fs) == Cardinality({i \in 1..Len(fs) : fs[i].on})

\* variant: the score is not divided by the number of factors
final_score_undivided(score, factors) == score

\* final_score = score / factors
final_score(score, factors) == RDivInt(score, factors)

\* variant: the threshold is 0.25
above_threshold_low(score) == RGt(score, Rat(25, 100))

\* final_score > 0.55
above_threshold(score) == RGt(score, Rat(55, 100))

\* the outcome of one iteration of the matcher's loop
scored(fs) ==
    LET factors == CountOn(fs)
        score == SumOn(fs)
        final == IF factors > 0 THEN final_score(score, factors) ELSE RZero
    IN  [skipped |-> FALSE, factors |-> factors, score |-> score, final |-> final,
         keep |-> factors > 0 /\ above_threshold(final)]

Skipped == [skipped |-> TRUE, factors |-> 0, score |-> RZero, final |-> RZero, keep |-> FALSE]

\* variant: the report_type test is missing
person_eval_no_skip(new_person, existing) == scored(person_factors(new_person, existing))

person_eval(new_person, existing) ==
    IF new_person.report_type = existing.report_type THEN Skipped
    ELSE scored(person_factors(new_person, existing))

item_eval(new_item, existing) ==
    IF new_item.report_type = existing.report_type THEN Skipped
    ELSE scored(item_factors(new_item, existing))

\* matches.append((existing, final_score)) in the order of the existing list
RECURSIVE appended(_, _, _)
appended(existing, evals, i) ==
    IF i > Len(existing) THEN <<>>
    ELSE (IF evals[i].keep THEN <<[report |-> existing[i], score |-> evals[i].final]>>
          ELSE <<>>) \o appended(existing, evals, i + 1)

\* list.sort(key=score, reverse=True): stable, equal scores keep their order
RECURSIVE insert_desc(_, _)
insert_desc(x, s) ==
    IF s = <<>> THEN <<x>>
    ELSE IF RGt(x.score, Head(s).score) THEN <<x>> \o s
    ELSE <<Head(s)>> \o insert_desc(x, Tail(s))

RECURSIVE sort_desc(_)
sort_desc(s) ==
    IF s = <<>> THEN <<>>
    ELSE insert_desc(s[Len(s)], sort_desc(SubSeq(s, 1, Len(s) - 1)))

MaxMatches == 5

\* matches[:5]
truncated(s) == SubSeq(s, 1, IF Len(s) < MaxMatches THEN Len(s) ELSE MaxMatches)

person_evals(new_person, existing_persons) ==
    [i \in 1..Len(existing_persons) |-> person_eval(new_person, existing_persons[i])]

item_evals(new_item, existing_items) ==
    [i \in 1..Len(existing_items) |-> item_eval(new_item, existing_items[i])]

match_persons(new_person, existing_persons) ==
    truncated(sort_desc(appended(existing_persons,
                                 person_evals(new_person, existing_persons), 1)))

match_items(new_item, existing_items) ==
    truncated(sort_desc(appended(existing_items,
                                 item_evals(new_item, existing_items), 1)))

-----------------------------------------------------------------------------
(* SpecMatch: the matchers applied to bounded inputs.  WorkedNew and        *)
(* WorkedExisting are the pair of the specification's worked scenario.     *)

WorkedNew ==
    [report_type |-> "missing", name |-> <<"R", "a", "m", " ", "K", "u", "m", "a", "r">>, age |-> <<"2", "5">>,
     gender |-> <<"m", "a", "l", "e">>, description |-> <<>>,
     location |-> <<"U", "j", "j", "a", "i", "n", " ", "G", "h", "a", "t">>, contact |-> "c1", oid |-> 1]

WorkedExisting ==
    [report_type |-> "found", name |-> <<"R", "a", "m", " ", "K", "u", "m", "e", "r">>, age |-> <<"2", "6">>,
     gender |-> <<"m", "a", "l", "e">>, description |-> <<>>,
     location |-> <<"U", "j", "j", "a", "i", "n", " ", "G", "h", "a", "t", " ", "R", "o", "a", "d">>, contact |-> "c2", oid |-> 2]

NameOnlyFound ==
    [report_type |-> "found", name |-> <<"R", "A", "M", " ", "K", "U", "M", "A", "R">>, age |-> <<"x">>,
     gender |-> <<>>, description |-> <<>>,
     location |-> <<>>, contact |-> "c3", oid |-> 3]

NameGenderFound ==
    [NameOnlyFound EXCEPT !.gender = <<"m", "a", "l", "e">>, !.contact = "c10", !.oid = 10]

DescribedMissing ==
    [report_type |-> "missing", name |-> <<"R", "a", "m", " ", "K", "u", "m", "a", "r">>, age |-> <<"2", "5">>,
     gender |-> <<"M", "a", "l", "e">>, description |-> <<"t", "h", "e", " ", "r", "e", "d", " ", "b", "a", "g", "s">>,
     location |-> <<"G", "h", "a", "t">>, contact |-> "c4", oid |-> 4]

DescribedFound ==
    [report_type |-> "found", name |-> <<>>, age |-> <<"3", "1">>,
     gender |-> <<"m", "a", "l", "e">>, description |-> <<"r", "e", "d", " ", "b", "a", "g", " ", "w", "a", "s", " ", "l", "o", "s", "t">>,
     location |-> <<"U", "j", "j", "a", "i", "n">>, contact |-> "c5", oid |-> 5]

LostBag ==
    [report_type |-> "lost", category |-> <<"b", "a", "g">>, color |-> <<"r", "e", "d">>,
     brand |-> <<>>, description |-> <<"a", " ", "r", "e", "d", " ", "b", "a", "g">>,
     location |-> <<"G", "h", "a", "t">>, contact |-> "c6", oid |-> 6]

FoundBag ==
    [report_type |-> "found", category |-> <<"B", "a", "g">>, color |-> <<"R", "e", "d">>,
     brand |-> <<>>, description |-> <<>>,
     location |-> <<"G", "h", "a", "t">>, contact |-> "c7", oid |-> 7]

FoundBags ==
    [report_type |-> "found", category |-> <<"b", "a", "g", "s">>, color |-> <<"r", "e", "d">>,
     brand |-> <<"a", "c", "m", "e">>, description |-> <<"r", "e", "d", " ", "b", "a", "g", " ", "f", "o", "u", "n", "d">>,
     location |-> <<"G", "h", "a", "t", " ", "R", "o", "a", "d">>, contact |-> "c8", oid |-> 8]

LostPhone ==
    [report_type |-> "lost", category |-> <<"p", "h", "o", "n", "e">>, color |-> <<"b", "l", "a", "c", "k">>,
     brand |-> <<"A", "c", "m", "e">>, description |-> <<>>,
     location |-> <<>>, contact |-> "c9", oid |-> 9]

PersonPool ==
    {WorkedNew, WorkedExisting, NameOnlyFound, NameGenderFound, DescribedMissing,
     DescribedFound}
ItemPool == {LostBag, FoundBag, FoundBags, LostPhone}

RECURSIVE ListsUpTo(_, _)
ListsUpTo(S, n) ==
    IF n = 0 THEN {<<>>}
    ELSE LET L == ListsUpTo(S, n - 1)
         IN  L \cup {Append(l, x) : l \in {t \in L : Len(t) = n - 1}, x \in S}

MatchInit ==
    /\ m_kind \in {"person", "item"}
    /\ m_new \in (IF m_kind = "person" THEN PersonPool ELSE ItemPool)
    /\ m_existing \in ListsUpTo(IF m_kind = "person" THEN PersonPool ELSE ItemPool,
                                MaxExisting)
    /\ m_evals = <<>>
    /\ m_result = <<>>
    /\ m_pc = "input"

RunMatchPersons ==
    /\ m_pc = "input"
    /\ m_kind = "person"
    /\ m_evals' = person_evals(m_new, m_existing)
    /\ m_result' = match_persons(m_new, m_existing)
    /\ m_pc' = "done"
    /\ UNCHANGED <<m_kind, m_new, m_existing>>

RunMatchItems ==
    /\ m_pc = "input"
    /\ m_kind = "item"
    /\ m_evals' = item_evals(m_new, m_existing)
    /\ m_result' = match_items(m_new, m_existing)
    /\ m_pc' = "done"
    /\ UNCHANGED <<m_kind, m_new, m_existing>>

SimIdle ==
    sim_a = <<>> /\ sim_b = <<>> /\ sim_ab = RZero /\ sim_ba = RZero /\ sim_pc = "idle"

MatchIdle ==
    /\ m_kind = "none" /\ m_new = <<>> /\ m_existing = <<>>
    /\ m_evals = <<>> /\ m_result = <<>> /\ m_pc = "idle"

-----------------------------------------------------------------------------
(* SpecSim: calculate_similarity applied to every pair of bounded strings *)

SimAlphabet == {"a", "b", "c", "A"}

RECURSIVE StringsUpTo(_, _)
StringsUpTo(A, n) ==
    IF n = 0 THEN {<<>>}
    ELSE LET S == StringsUpTo(A, n - 1)
         IN  S \cup {Append(s, c) : s \in {t \in S : Len(t) = n - 1}, c \in A}

SimInit ==
    /\ sim_a \in StringsUpTo(SimAlphabet, MaxLen)
    /\ sim_b \in StringsUpTo(SimAlphabet, MaxLen)
    /\ sim_ab = RZero
    /\ sim_ba = RZero
    /\ sim_pc = "input"

SimCompute ==
    /\ sim_pc = "input"
    /\ sim_ab' = calculate_similarity(sim_a, sim_b)
    /\ sim_ba' = calculate_similarity(sim_b, sim_a)
    /\ sim_pc' = "done"
    /\ UNCHANGED <<sim_a, sim_b>>


-----------------------------------------------------------------------------
(* Spec: the notification pipeline.                                        *)
(*   producers   submit_person, submit_item, notify_manual_match, one per  *)
(*               request slot, running concurrently (the server is         *)
(*               threaded); each queue put is a step of its own            *)
(*   consumer    notification_worker, one step per store or channel call   *)
(* tid (the ordinal of the put), req (the request slot that put) and hist   *)
(* (the statuses a record has had) are history fields; the program does    *)
(* not read them.  A request slot holds the handler's locals: data,        *)
(* existing (the _ids find returned), matches, and toPut (the tasks of the *)
(* loop not yet put).                                                      *)

\* the sentinel, and the value of w_cur while no task is held
None == [none |-> TRUE]

IsTask(item) == "task" \in DOMAIN item

\* variant: __main__ starts a second worker thread
WorkerThreads_two == {1, 2}

\* the worker threads started by __main__: one
WorkerThreads == {1}

Requests == 1..MaxRequests

IdleRequest ==
    [pc |-> "idle", handler |-> "none", data |-> None, existing |-> <<>>,
     matches |-> <<>>, toPut |-> <<>>, code |-> 0]

\* the request slot the next incoming request runs in
FreeSlots == {r \in Requests : requests[r].pc = "idle"}
FreeSlot == SetMin(FreeSlots)

\* round(score * 100, 2), as a rational (halves rounded up)
round_percent(score) ==
    Rat((2 * score.n * 10000 + score.d) \div (2 * score.d), 100)

\* ---- request bodies ----

\* two person reports and two item reports that agree on every attribute and
\* differ in report_type, and one body each that lacks a required field
MissingRam ==
    [report_type |-> "missing", name |-> <<"R", "a", "m">>, age |-> <<"2", "5">>,
     gender |-> <<"m", "a", "l", "e">>, description |-> <<>>,
     location |-> <<"G", "h", "a", "t">>, contact |-> "c1", oid |-> 0]
FoundRam == [MissingRam EXCEPT !.report_type = "found", !.contact = "c2"]
LostRedBag ==
    [report_type |-> "lost", category |-> <<"b", "a", "g">>, color |-> <<"r", "e", "d">>,
     brand |-> <<>>, description |-> <<>>,
     location |-> <<"G", "h", "a", "t">>, contact |-> "c3", oid |-> 0]
FoundRedBag == [LostRedBag EXCEPT !.report_type = "found", !.contact = "c4"]

PersonBodies == {MissingRam, FoundRam, [MissingRam EXCEPT !.contact = ""]}
ItemBodies == {LostRedBag, FoundRedBag, [FoundRedBag EXCEPT !.contact = ""]}

ManualDetails == [name |-> <<"R", "a", "m">>, contact |-> "c2"]
NotADict == [text |-> <<"R", "a", "m">>]
IsDict(match_details) == "text" \notin DOMAIN match_details

ManualBodies ==
    {[contact_number |-> "c1", match_type |-> "person", match_details |-> ManualDetails],
     [contact_number |-> "c1", match_type |-> "item", match_details |-> ManualDetails],
     [contact_number |-> "c1", match_type |-> "person", match_details |-> NotADict],
     [contact_number |-> "", match_type |-> "person", match_details |-> ManualDetails]}

\* "if field not in data or not data[field]" over the required fields
person_required(data) ==
    /\ data.report_type # "" /\ Truthy(data.name) /\ Truthy(data.age)
    /\ Truthy(data.gender) /\ Truthy(data.location) /\ data.contact # ""

item_required(data) ==
    /\ data.report_type # "" /\ Truthy(data.category) /\ Truthy(data.color)
    /\ Truthy(data.location) /\ data.contact # ""

manual_required(data) ==
    data.contact_number # "" /\ data.match_type # ""

\* ---- producers ----

\* variant: only the submitter is notified
RECURSIVE match_tasks_one_sided(_, _, _)
match_tasks_one_sided(data, matches, match_type) ==
    IF matches = <<>> THEN <<>>
    ELSE LET match == Head(matches).report
             score == Head(matches).score
         IN  << [contact_number |-> data.contact, match_type |-> match_type,
                 match_details |-> match, similarity_score |-> round_percent(score),
                 report_id |-> data.oid] >>
             \o match_tasks_one_sided(data, Tail(matches), match_type)

\* the two notification_queue.put calls per match, in the order of the matches
RECURSIVE match_tasks(_, _, _)
match_tasks(data, matches, match_type) ==
    IF matches = <<>> THEN <<>>
    ELSE LET match == Head(matches).report
             score == Head(matches).score
         IN  << [contact_number |-> data.contact, match_type |-> match_type,
                 match_details |-> match, similarity_score |-> round_percent(score),
                 report_id |-> data.oid],
                [contact_number |-> match.contact, match_type |-> match_type,
                 match_details |-> data, similarity_score |-> round_percent(score),
                 report_id |-> match.oid] >>
             \o match_tasks(data, Tail(matches), match_type)

\* variant: the filter asks for a status no stored report has
find_others_pending(collection, oid) ==
    LET Other(report) == report.oid # oid /\ report.status = "pending"
    IN  SelectSeq(collection, Other)

\* find({'_id': {'$ne': inserted_id}, 'status': 'active'})
find_others(collection, oid) ==
    LET Other(report) == report.oid # oid /\ report.status = "active"
    IN  SelectSeq(collection, Other)

\* variant: the except clause of a submit handler removes the new report
after_submit_error_rollback(collection, oid) ==
    LET Kept(report) == report.oid # oid
    IN  SelectSeq(collection, Kept)

\* the collection after the except clause of a submit handler: as it was
after_submit_error(collection, oid) == collection

\* what insert_one stores: the body with status, has_photos and the new _id
stored_person(data, oid) ==
    [report_type |-> data.report_type, name |-> data.name, age |-> data.age,
     gender |-> data.gender, description |-> data.description,
     location |-> data.location, contact |-> data.contact, oid |-> oid,
     status |-> "active", has_photos |-> FALSE]

stored_item(data, oid) ==
    [report_type |-> data.report_type, category |-> data.category, color |-> data.color,
     brand |-> data.brand, description |-> data.description,
     location |-> data.location, contact |-> data.contact, oid |-> oid,
     status |-> "active", has_photos |-> FALSE]

\* submit_person up to person_reports.insert_one
submit_person_insert(r, data) ==
    /\ requests[r].pc = "idle"
    /\ IF person_required(data)
       THEN LET doc == stored_person(data, Len(person_reports) + 1)
            IN  /\ person_reports' = Append(person_reports, doc)
                /\ requests' = [requests EXCEPT ![r] =
                       [IdleRequest EXCEPT !.pc = "inserted", !.handler = "submit_person",
                                           !.data = doc]]
       ELSE /\ requests' = [requests EXCEPT ![r] =
                       [IdleRequest EXCEPT !.pc = "done", !.handler = "submit_person",
                                           !.code = 4]]
            /\ UNCHANGED person_reports
    /\ UNCHANGED <<notification_queue, notifications, item_reports, w_pc, w_cur, w_nid,
                   w_success, shutdown, enqueued, dispatched, sends, results>>

\* submit_person from person_reports.find to the end of match_persons; when the read
\* raises, the handler's except clause answers 500
submit_person_match(r) ==
    /\ requests[r].pc = "inserted"
    /\ requests[r].handler = "submit_person"
    /\ \E read_ok \in BOOLEAN :
          IF read_ok
          THEN LET data == requests[r].data
                   existing_reports == find_others(person_reports, data.oid)
                   matches == match_persons(data, existing_reports)
               IN  /\ requests' = [requests EXCEPT
                          ![r].existing = [i \in 1..Len(existing_reports) |->
                                              existing_reports[i].oid],
                          ![r].matches = matches,
                          ![r].pc = "matched"]
                   /\ UNCHANGED person_reports
          ELSE /\ requests' = [requests EXCEPT ![r].pc = "done", ![r].code = 500]
               /\ person_reports' = after_submit_error(person_reports, requests[r].data.oid)
    /\ UNCHANGED <<notification_queue, notifications, item_reports,
                   w_pc, w_cur, w_nid, w_success, shutdown, enqueued, dispatched,
                   sends, results>>

\* submit_person from "if matches:" on: the tasks of the loop over the matches;
\* without a match the handler answers 200 at once
submit_person_enqueue(r) ==
    /\ requests[r].pc = "matched"
    /\ requests[r].handler = "submit_person"
    /\ LET tasks == match_tasks(requests[r].data, requests[r].matches, "person")
       IN  requests' = [requests EXCEPT ![r].toPut = tasks,
                                        ![r].pc = IF tasks = <<>> THEN "done" ELSE "put",
                                        ![r].code = IF tasks = <<>> THEN 200 ELSE 0]
    /\ UNCHANGED <<notification_queue, notifications, person_reports, item_reports,
                   w_pc, w_cur, w_nid, w_success, shutdown, enqueued, dispatched,
                   sends, results>>

\* submit_item up to item_reports.insert_one
submit_item_insert(r, data) ==
    /\ requests[r].pc = "idle"
    /\ IF item_required(data)
       THEN LET doc == stored_item(data, Len(item_reports) + 1)
            IN  /\ item_reports' = Append(item_reports, doc)
                /\ requests' = [requests EXCEPT ![r] =
                       [IdleRequest EXCEPT !.pc = "inserted", !.handler = "submit_item",
                                           !.data = doc]]
       ELSE /\ requests' = [requests EXCEPT ![r] =
                       [IdleRequest EXCEPT !.pc = "done", !.handler = "submit_item",
                                           !.code = 400]]
            /\ UNCHANGED item_reports
    /\ UNCHANGED <<notification_queue, notifications, person_reports, w_pc, w_cur, w_nid,
                   w_success, shutdown, enqueued, dispatched, sends, results>>

\* submit_item from item_reports.find to the end of match_items; when the read
\* raises, the handler's except clause answers 500
submit_item_match(r) ==
    /\ requests[r].pc = "inserted"
    /\ requests[r].handler = "submit_item"
    /\ \E read_ok \in BOOLEAN :
          IF read_ok
          THEN LET data == requests[r].data
                   existing_reports == find_others(item_reports, data.oid)
                   matches == match_items(data, existing_reports)
               IN  /\ requests' = [requests EXCEPT
                          ![r].existing = [i \in 1..Len(existing_reports) |->
                                              existing_reports[i].oid],
                          ![r].matches = matches,
                          ![r].pc = "matched"]
                   /\ UNCHANGED item_reports
          ELSE /\ requests' = [requests EXCEPT ![r].pc = "done", ![r].code = 500]
               /\ item_reports' = after_submit_error(item_reports, requests[r].data.oid)
    /\ UNCHANGED <<notification_queue, notifications, person_reports,
                   w_pc, w_cur, w_nid, w_success, shutdown, enqueued, dispatched,
                   sends, results>>

\* submit_item from "if matches:" on: the tasks of the loop over the matches;
\* without a match the handler answers 200 at once
submit_item_enqueue(r) ==
    /\ requests[r].pc = "matched"
    /\ requests[r].handler = "submit_item"
    /\ LET tasks == match_tasks(requests[r].data, requests[r].matches, "item")
       IN  requests' = [requests EXCEPT ![r].toPut = tasks,
                                        ![r].pc = IF tasks = <<>> THEN "done" ELSE "put",
                                        ![r].code = IF tasks = <<>> THEN 200 ELSE 0]
    /\ UNCHANGED <<notification_queue, notifications, person_reports, item_reports,
                   w_pc, w_cur, w_nid, w_success, shutdown, enqueued, dispatched,
                   sends, results>>

\* notify_manual_match up to its notification_queue.put
notify_manual_match(r, data) ==
    /\ requests[r].pc = "idle"
    /\ requests' = [requests EXCEPT ![r] =
           IF manual_required(data)
           THEN [IdleRequest EXCEPT
                     !.pc = "put", !.handler = "notify_manual_match",
                     !.toPut = << [contact_number |-> data.contact_number,
                                   match_type |-> data.match_type,
                                   match_details |-> data.match_details,
                                   similarity_score |-> Rat(80, 1),
                                   report_id |-> 0] >>]
           ELSE [IdleRequest EXCEPT !.pc = "done", !.handler = "notify_manual_match",
                                    !.code = 400]]
    /\ UNCHANGED <<notification_queue, notifications, person_reports, item_reports,
                   w_pc, w_cur, w_nid, w_success, shutdown, enqueued, dispatched,
                   sends, results>>

\* one notification_queue.put of a handler; after its last put it answers 200
queue_put(r) ==
    /\ requests[r].pc = "put"
    /\ LET tid == Len(enqueued) + 1
           rest == Tail(requests[r].toPut)
       IN  /\ notification_queue' =
                  Append(notification_queue,
                         [tid |-> tid, req |-> r, task |-> Head(requests[r].toPut)])
           /\ enqueued' = Append(enqueued,
                         [tid |-> tid, req |-> r, task |-> Head(requests[r].toPut)])
           /\ requests' = [requests EXCEPT ![r].toPut = rest,
                                           ![r].pc = IF rest = <<>> THEN "done" ELSE "put",
                                           ![r].code = IF rest = <<>> THEN 200 ELSE 0]
    /\ UNCHANGED <<notifications, person_reports, item_reports, w_pc, w_cur, w_nid,
                   w_success, shutdown, dispatched, sends, results>>

\* the sentinel put at process shutdown
put_sentinel ==
    /\ ~shutdown
    /\ shutdown' = TRUE
    /\ notification_queue' = Append(notification_queue, None)
    /\ UNCHANGED <<notifications, person_reports, item_reports, w_pc, w_cur, w_nid,
                   w_success, requests, enqueued, dispatched, sends, results>>

\* ---- consumer ----

\* variant: the newest item is taken (a LifoQueue)
queue_get_lifo(q) == [item |-> q[Len(q)], rest |-> SubSeq(q, 1, Len(q) - 1)]

\* Queue.get(): the oldest item
queue_get(q) == [item |-> Head(q), rest |-> Tail(q)]

\* variant: the loop ends when a dispatch returns False
worker_after_dispatch_break(success) == IF success THEN "get" ELSE "stopped"

\* where the worker goes when send_match_notification has returned
worker_after_dispatch(success) == "get"

\* variant: the except clause ends the loop
worker_after_error_break == "stopped"

\* where the worker goes after its except clause (print, time.sleep(5))
worker_after_error == "get"

\* variant: a failed send is tried again
after_send_retry(success) == IF success THEN "update" ELSE "send"

\* where send_match_notification goes after send_whatsapp_message
after_send(success) == "update"

\* variant: the else is missing, 'sent' is written before 'failed'
status_updates_no_else(success) == IF success THEN <<"sent">> ELSE <<"sent", "failed">>

\* the statuses update_one writes once the send has returned
status_updates(success) == IF success THEN <<"sent">> ELSE <<"failed">>

RECURSIVE write_statuses(_, _)
write_statuses(record, statuses) ==
    IF statuses = <<>> THEN record
    ELSE write_statuses([record EXCEPT !.status = Head(statuses),
                                       !.hist = Append(@, Head(statuses))],
                        Tail(statuses))

\* notification_queue.get(); the sentinel breaks the loop; otherwise
\* send_match_notification is called and builds the message, which raises
\* when match_details has no .get
notification_worker_get(w) ==
    /\ w_pc[w] = "get"
    /\ notification_queue # <<>>
    /\ LET got == queue_get(notification_queue)
       IN  /\ notification_queue' = got.rest
           /\ IF IsTask(got.item)
              THEN /\ w_cur' = [w_cur EXCEPT ![w] = got.item]
                   /\ dispatched' = Append(dispatched, got.item.tid)
                   /\ w_pc' = [w_pc EXCEPT ![w] =
                          IF IsDict(got.item.task.match_details) THEN "insert"
                          ELSE "except_dispatch"]
              ELSE /\ w_pc' = [w_pc EXCEPT ![w] = "stopped"]
                   /\ UNCHANGED <<w_cur, dispatched>>
    /\ w_nid' = [w_nid EXCEPT ![w] = 0]
    /\ UNCHANGED <<notifications, person_reports, item_reports, w_success, requests,
                   shutdown, enqueued, sends, results>>

\* variant: a failed insert_one is swallowed and the send goes ahead
after_insert_swallowed(store_ok) == "send"

\* where send_match_notification goes after notifications.insert_one
after_insert(store_ok) == IF store_ok THEN "send" ELSE "except_dispatch"

\* notifications.insert_one({... 'status': 'pending' ...}), which may raise
send_match_notification_insert(w) ==
    /\ w_pc[w] = "insert"
    /\ \E store_ok \in BOOLEAN :
          IF store_ok
          THEN /\ notifications' = Append(notifications,
                      [tid |-> w_cur[w].tid, type |-> "match_alert",
                       contact_number |-> w_cur[w].task.contact_number,
                       status |-> "pending", hist |-> <<"pending">>])
               /\ w_nid' = [w_nid EXCEPT ![w] = Len(notifications) + 1]
               /\ w_pc' = [w_pc EXCEPT ![w] = after_insert(store_ok)]
          ELSE /\ w_pc' = [w_pc EXCEPT ![w] = after_insert(store_ok)]
               /\ UNCHANGED <<notifications, w_nid>>
    /\ UNCHANGED <<notification_queue, person_reports, item_reports, w_cur, w_success,
                   requests, shutdown, enqueued, dispatched, sends, results>>

\* WhatsAppHandler.send_whatsapp_message: True, or False when the channel fails
send_whatsapp_message(w) ==
    /\ w_pc[w] = "send"
    /\ \E success \in BOOLEAN :
          /\ w_success' = [w_success EXCEPT ![w] = success]
          /\ w_pc' = [w_pc EXCEPT ![w] = after_send(success)]
          /\ sends' = Append(sends, [tid |-> w_cur[w].tid, success |-> success])
    /\ UNCHANGED <<notification_queue, notifications, person_reports, item_reports,
                   w_cur, w_nid, requests, shutdown, enqueued, dispatched, results>>

\* notifications.update_one (which may raise), return success, task_done()
send_match_notification_update(w) ==
    /\ w_pc[w] = "update"
    /\ \E store_ok \in BOOLEAN :
          IF store_ok
          THEN /\ notifications' = [notifications EXCEPT ![w_nid[w]] =
                      write_statuses(@, status_updates(w_success[w]))]
               /\ results' = (w_cur[w].tid :> (IF w_success[w] THEN "True" ELSE "False"))
                             @@ results
               /\ w_pc' = [w_pc EXCEPT ![w] = worker_after_dispatch(w_success[w])]
               /\ w_cur' = [w_cur EXCEPT ![w] = None]
          ELSE /\ w_pc' = [w_pc EXCEPT ![w] = "except_dispatch"]
               /\ UNCHANGED <<notifications, results, w_cur>>
    /\ UNCHANGED <<notification_queue, person_reports, item_reports, w_nid, w_success,
                   requests, shutdown, enqueued, dispatched, sends>>

\* send_match_notification's except clause: print and return False, then
\* task_done(); when the print itself raises the error reaches the worker
send_match_notification_except(w) ==
    /\ w_pc[w] = "except_dispatch"
    /\ \E printed \in BOOLEAN :
          /\ results' = (w_cur[w].tid :> (IF printed THEN "False" ELSE "raised")) @@ results
          /\ w_pc' = [w_pc EXCEPT ![w] =
                 IF printed THEN worker_after_dispatch(FALSE) ELSE "except_worker"]
    /\ w_cur' = [w_cur EXCEPT ![w] = None]
    /\ UNCHANGED <<notification_queue, notifications, person_reports, item_reports,
                   w_nid, w_success, requests, shutdown, enqueued, dispatched, sends>>

\* notification_worker's except clause: print, time.sleep(5), next iteration
notification_worker_except(w) ==
    /\ w_pc[w] = "except_worker"
    /\ w_pc' = [w_pc EXCEPT ![w] = worker_after_error]
    /\ UNCHANGED <<notification_queue, notifications, person_reports, item_reports,
                   w_cur, w_nid, w_success, requests, shutdown, enqueued, dispatched,
                   sends, results>>

\* ---- the specification ----

\* the queue, the worker and the notifications collection at start-up
PipeIdle ==
    /\ notification_queue = <<>>
    /\ notifications = <<>>
    /\ w_pc = [w \in WorkerThreads |-> "get"]
    /\ w_cur = [w \in WorkerThreads |-> None]
    /\ w_nid = [w \in WorkerThreads |-> 0]
    /\ w_success = [w \in WorkerThreads |-> FALSE]
    /\ shutdown = FALSE
    /\ enqueued = <<>>
    /\ dispatched = <<>>
    /\ sends = <<>>
    /\ results = <<>>

PipeInit ==
    /\ PipeIdle
    /\ person_reports = <<>>
    /\ item_reports = <<>>
    /\ requests = [r \in Requests |-> IdleRequest]

\* ---- the enqueue loop of the submit handlers on drawn match lists ----
\* match_persons and match_items return no match (C16), so the loop over the
\* matches is exercised with the lists a matcher may hand over: up to MaxDrawn
\* stored reports of the opposite type, each once, with scores above the
\* threshold in descending order.

DrawnScores == {Rat(7, 8), Rat(3, 5)}
DrawnContacts == <<"c2", "c5", "c6", "c7">>
DrawnPool == 1..(MaxDrawn + 1)

drawn_report(kind, i) ==
    IF kind = "person"
    THEN stored_person([FoundRam EXCEPT !.contact = DrawnContacts[i]], i)
    ELSE stored_item([FoundRedBag EXCEPT !.contact = DrawnContacts[i]], i)

drawn_new(kind) ==
    IF kind = "person" THEN stored_person(MissingRam, MaxDrawn + 2)
    ELSE stored_item(LostRedBag, MaxDrawn + 2)

DrawnMatches(kind) ==
    UNION {{[i \in 1..n |-> [report |-> drawn_report(kind, pick[i]), score |-> sc[i]]] :
               pick \in {f \in [1..n -> DrawnPool] :
                            \A i, j \in 1..n : i # j => f[i] # f[j]},
               sc \in {g \in [1..n -> DrawnScores] :
                          \A i, j \in 1..n : i < j => RLe(g[j], g[i])}} :
           n \in 0..MaxDrawn}

EnqueueInit ==
    /\ PipeIdle
    /\ \E kind \in {"person", "item"} : \E matches \in DrawnMatches(kind) :
          LET stored == [i \in DrawnPool |-> drawn_report(kind, i)] \o <<drawn_new(kind)>>
          IN  /\ person_reports = IF kind = "person" THEN stored ELSE <<>>
              /\ item_reports = IF kind = "item" THEN stored ELSE <<>>
              /\ requests = [r \in Requests |->
                     IF r = 1
                     THEN [IdleRequest EXCEPT
                               !.pc = "matched",
                               !.handler = IF kind = "person" THEN "submit_person"
                                           ELSE "submit_item",
                               !.data = drawn_new(kind),
                               !.existing = [i \in DrawnPool |-> i],
                               !.matches = matches]
                     ELSE IdleRequest]

SubmitPerson ==
    /\ FreeSlots # {}
    /\ \E data \in PersonBodies : submit_person_insert(FreeSlot, data)
    /\ UNCHANGED <<sim_vars, match_vars>>

SubmitPersonMatch ==
    /\ \E r \in Requests : submit_person_match(r)
    /\ UNCHANGED <<sim_vars, match_vars>>

SubmitPersonEnqueue ==
    /\ \E r \in Requests : submit_person_enqueue(r)
    /\ UNCHANGED <<sim_vars, match_vars>>

SubmitItem ==
    /\ FreeSlots # {}
    /\ \E data \in ItemBodies : submit_item_insert(FreeSlot, data)
    /\ UNCHANGED <<sim_vars, match_vars>>

SubmitItemMatch ==
    /\ \E r \in Requests : submit_item_match(r)
    /\ UNCHANGED <<sim_vars, match_vars>>

SubmitItemEnqueue ==
    /\ \E r \in Requests : submit_item_enqueue(r)
    /\ UNCHANGED <<sim_vars, match_vars>>

NotifyManualMatch ==
    /\ FreeSlots # {}
    /\ \E data \in ManualBodies : notify_manual_match(FreeSlot, data)
    /\ UNCHANGED <<sim_vars, match_vars>>

QueuePut ==
    /\ \E r \in Requests : queue_put(r)
    /\ UNCHANGED <<sim_vars, match_vars>>

PutSentinel ==
    /\ put_sentinel
    /\ UNCHANGED <<sim_vars, match_vars>>

WorkerGet ==
    /\ \E w \in WorkerThreads : notification_worker_get(w)
    /\ UNCHANGED <<sim_vars, match_vars>>

DispatchInsert ==
    /\ \E w \in WorkerThreads : send_match_notification_insert(w)
    /\ UNCHANGED <<sim_vars, match_vars>>

DispatchSend ==
    /\ \E w \in WorkerThreads : send_whatsapp_message(w)
    /\ UNCHANGED <<sim_vars, match_vars>>

DispatchUpdate ==
    /\ \E w \in WorkerThreads : send_match_notification_update(w)
    /\ UNCHANGED <<sim_vars, match_vars>>

DispatchExcept ==
    /\ \E w \in WorkerThreads : send_match_notification_except(w)
    /\ UNCHANGED <<sim_vars, match_vars>>

WorkerExcept ==
    /\ \E w \in WorkerThreads : notification_worker_except(w)
    /\ UNCHANGED <<sim_vars, match_vars>>

Init == PipeInit /\ SimIdle /\ MatchIdle

Next ==
    \/ SubmitPerson \/ SubmitPersonMatch \/ SubmitPersonEnqueue
    \/ SubmitItem \/ SubmitItemMatch \/ SubmitItemEnqueue
    \/ NotifyManualMatch \/ QueuePut \/ PutSentinel
    \/ WorkerGet \/ DispatchInsert \/ DispatchSend \/ DispatchUpdate
    \/ DispatchExcept \/ WorkerExcept

Spec == Init /\ [][Next]_vars

\* the worker thread keeps running: a step of it that stays possible is taken
WorkerNext ==
    \/ WorkerGet \/ DispatchInsert \/ DispatchSend \/ DispatchUpdate
    \/ DispatchExcept \/ WorkerExcept
FairSpec == Spec /\ WF_vars(WorkerNext)

\* the enqueue loop alone, next to another producer
InitEnqueue == EnqueueInit /\ SimIdle /\ MatchIdle
NextEnqueue ==
    \/ SubmitPersonEnqueue \/ SubmitItemEnqueue \/ NotifyManualMatch \/ QueuePut
SpecEnqueue == InitEnqueue /\ [][NextEnqueue]_vars

\* calculate_similarity alone
InitSim == SimInit /\ MatchIdle /\ PipeInit
SimStep == SimCompute /\ UNCHANGED <<match_vars, pipe_vars>>
SpecSim == InitSim /\ [][SimStep]_vars

\* the matchers alone
InitMatch == MatchInit /\ SimIdle /\ PipeInit
MatchPersonsStep == RunMatchPersons /\ UNCHANGED <<sim_vars, pipe_vars>>
MatchItemsStep == RunMatchItems /\ UNCHANGED <<sim_vars, pipe_vars>>
NextMatch == MatchPersonsStep \/ MatchItemsStep
SpecMatch == InitMatch /\ [][NextMatch]_vars

-----------------------------------------------------------------------------
(* Properties of the notification pipeline (Spec) *)

\* the tasks of a queue, without the sentinel
TasksIn(q) == SelectSeq(q, IsTask)

TidsOf(q) == [i \in 1..Len(q) |-> q[i].tid]

\* how often tid occurs in a history
Count(log, tid) == Cardinality({i \in 1..Len(log) : log[i] = tid})

\* send_match_notification has ended for tid (returned, or raised)
Ended(tid) == tid \in DOMAIN results

\* how often send_whatsapp_message was called for tid
SendCount(tid) == Cardinality({i \in 1..Len(sends) : sends[i].tid = tid})

HasRecord(tid) == \E i \in 1..Len(notifications) : notifications[i].tid = tid

InDispatch == {"insert", "send", "update", "except_dispatch"}

\* C1: a notification record starts as pending and changes status at most
\* once, to sent or to failed; it is never both, and once sent or failed it
\* never changes again.
C1_StatusChangesAtMostOnce ==
    \A i \in 1..Len(notifications) :
        /\ notifications[i].hist \in
               {<<"pending">>, <<"pending", "sent">>, <<"pending", "failed">>}
        /\ notifications[i].status = notifications[i].hist[Len(notifications[i].hist)]

C1_Witness ==
    \E i, j \in 1..Len(notifications) :
        /\ notifications[i].hist = <<"pending", "sent">>
        /\ notifications[j].hist = <<"pending", "failed">>

\* C2: the tasks send_match_notification was called with are, in order, the
\* tasks put on the queue that are no longer in it: each once, none skipped,
\* none reordered; once the queue holds no task, N puts made N dispatches.
C2_DispatchedInFifoOrder ==
    TidsOf(enqueued) = dispatched \o TidsOf(TasksIn(notification_queue))

C2_Witness ==
    /\ Len(dispatched) = 2
    /\ dispatched = TidsOf(enqueued)
    /\ \A r \in Requests : requests[r].handler = "notify_manual_match"
    /\ enqueued[1].task # enqueued[2].task

\* a dispatch by w ends in this step, and not with True
FailsNow(w) ==
    /\ IsTask(w_cur[w])
    /\ ~Ended(w_cur[w].tid)
    /\ w_cur[w].tid \in DOMAIN results'
    /\ results'[w_cur[w].tid] # "True"

\* C3: when a dispatch fails (returns False or raises) the worker goes on to
\* its next get, the queue is as it was, and what the worker gets next is
\* the head of the queue, dispatched if it is a task.
C3_FailureKeepsWorkerAndQueue ==
    [][\A w \in WorkerThreads :
          /\ FailsNow(w) =>
                /\ w_pc'[w] \in {"get", "except_worker"}
                /\ notification_queue' = notification_queue
          /\ w_pc[w] = "except_worker" => w_pc'[w] \in {"except_worker", "get"}
          /\ (w_pc[w] = "get" /\ w_pc'[w] # "get" /\ IsTask(Head(notification_queue))) =>
                /\ dispatched' = Append(dispatched, Head(notification_queue).tid)
                /\ notification_queue' = Tail(notification_queue)]_vars

C3_Witness ==
    /\ Len(dispatched) = 2
    /\ Ended(1) /\ results[1] = "raised"
    /\ Ended(2) /\ results[2] = "True"

\* C4: a worker leaves the loop only by getting the sentinel at its get, and
\* that step dispatches nothing, sends nothing and writes no record; no step
\* of a dispatch or of an except clause ends the loop.
C4_OnlySentinelStopsWorker ==
    [][\A w \in WorkerThreads :
          (w_pc[w] # "stopped" /\ w_pc'[w] = "stopped") =>
              /\ w_pc[w] = "get"
              /\ notification_queue # <<>>
              /\ ~IsTask(Head(notification_queue))
              /\ dispatched' = dispatched
              /\ sends' = sends
              /\ notifications' = notifications]_vars

C4_Witness ==
    /\ \E w \in WorkerThreads : w_pc[w] = "stopped"
    /\ \E tid \in DOMAIN results : results[tid] = "raised"

\* C5: at most one dispatch is in progress, and every dispatch but the last
\* one started has ended, however many producers are putting.
C5_OneDispatchAtATime ==
    /\ Cardinality({w \in WorkerThreads : w_pc[w] \in InDispatch}) <= 1
    /\ \A i \in 1..(Len(dispatched) - 1) : Ended(dispatched[i])

C5_Witness ==
    /\ Len(dispatched) = 2
    /\ \E w \in WorkerThreads : w_pc[w] = "update" /\ w_cur[w].tid = 2
    /\ notifications[1].status = "sent"
    /\ notifications[2].status = "pending"

\* C6 as claimed, on the tasks whose message could be built: every dispatch
\* that has ended called send_whatsapp_message exactly once, also when the
\* insert of the pending record raised.
C6_ExactlyOneSendPerTask ==
    \A tid \in DOMAIN results :
        IsDict(enqueued[tid].task.match_details) => SendCount(tid) = 1

\* C6 amended: send_whatsapp_message is called at most once per dequeued
\* task (a failed send is not tried again); for a dispatch that has ended,
\* exactly once if the pending record was inserted and not at all if
\* building the message or inserting the record raised.
C6_AtMostOneSendPerTask ==
    \A i \in 1..Len(dispatched) :
        LET tid == dispatched[i]
        IN  /\ SendCount(tid) <= 1
            /\ Count(dispatched, tid) = 1
            /\ Ended(tid) => SendCount(tid) = (IF HasRecord(tid) THEN 1 ELSE 0)

C6_Witness ==
    \E tid \in DOMAIN results :
        /\ results[tid] = "False"
        /\ SendCount(tid) = 1
        /\ \E i \in 1..Len(notifications) :
              notifications[i].tid = tid /\ notifications[i].status = "failed"

-----------------------------------------------------------------------------
(* Properties of the matchers (SpecMatch) *)

\* the score the worked scenario's four factors give:
\* (name_sim * 0.4 + 0.9 * 0.2 + 0.2 + location_sim * 0.2) / 4
WorkedScore ==
    RDivInt(RAdd(RAdd(RAdd(RMul(Rat(16, 18), Rat(4, 10)),
                           RMul(Rat(9, 10), Rat(2, 10))),
                      Rat(2, 10)),
                 RMul(calculate_similarity(WorkedNew.location, WorkedExisting.location),
                      Rat(2, 10))),
            4)

\* C7: in the worked scenario match_persons activates four factors, scores
\* the pair (0.89*0.4 + 0.9*0.2 + 1*0.2 + sim_loc*0.2)/4, the score exceeds
\* 0.55 and the existing report is returned.
C7_WorkedScenarioIsMatched ==
    (m_pc = "done" /\ m_kind = "person" /\ m_new = WorkedNew
        /\ m_existing = <<WorkedExisting>>) =>
            /\ m_evals[1].factors = 4
            /\ m_evals[1].final = WorkedScore
            /\ RGt(m_evals[1].final, Rat(55, 100))
            /\ m_result = <<[report |-> WorkedExisting, score |-> WorkedScore]>>

\* C8: a report of the new report's report_type is skipped before any factor
\* is evaluated, and no returned pair holds one.
C8_SameTypeSkipped ==
    m_pc = "done" =>
        /\ \A i \in 1..Len(m_existing) :
              m_existing[i].report_type = m_new.report_type =>
                  m_evals[i].skipped /\ m_evals[i].factors = 0
        /\ \A j \in 1..Len(m_result) :
              m_result[j].report.report_type # m_new.report_type

C8_Witness ==
    /\ m_pc = "done"
    /\ \E i, j \in 1..Len(m_existing) :
          /\ m_existing[i].report_type = m_new.report_type
          /\ m_existing[i] # m_new
          /\ m_evals[i].skipped
          /\ m_existing[j].report_type # m_new.report_type
          /\ m_evals[j].factors >= 4

-----------------------------------------------------------------------------
(* Properties of calculate_similarity (SpecSim) *)

\* C10 as claimed: calculate_similarity(s, s) = 1.0 and
\* calculate_similarity(a, b) = calculate_similarity(b, a).
C10_ReflexiveAndSymmetric ==
    sim_pc = "done" =>
        /\ sim_a = sim_b => sim_ab = ROne
        /\ sim_ab = sim_ba

\* C10 amended: calculate_similarity(s, s) = 1.0 for every s, and the two
\* argument orders agree when both strings have at most two characters;
\* for longer strings they may differ.
C10_ReflexiveAndSymmetricWhenShort ==
    sim_pc = "done" =>
        /\ sim_a = sim_b => sim_ab = ROne /\ sim_ba = ROne
        /\ (Len(sim_a) <= 2 /\ Len(sim_b) <= 2) => sim_ab = sim_ba

C10_Witness ==
    /\ sim_pc = "done"
    /\ Len(sim_a) = 2 /\ Len(sim_b) = 2
    /\ lower(sim_a) # lower(sim_b)
    /\ sim_ab = sim_ba
    /\ sim_ab = Rat(1, 2)


-----------------------------------------------------------------------------
(* Properties of the submit handlers and of the dispatch *)

\* the queue items request r has put, in the order of its puts
TasksOf(r) ==
    LET Mine(item) == item.req = r
    IN  SelectSeq(enqueued, Mine)

Submits == {"submit_person", "submit_item"}

\* C11: for every match a submit handler got from the matcher it enqueues
\* exactly two tasks, so 2k tasks for k matches: first one to the submitter's
\* contact with the matched report as match_details and the new report's id,
\* then one to the matched report's contact with the new report as
\* match_details and the matched report's id; the two carry the same
\* similarity_score.
C11_TwoTasksPerMatch ==
    \A r \in Requests :
        requests[r].handler \in Submits /\ requests[r].pc \in {"put", "done"} =>
        LET data == requests[r].data
            matches == requests[r].matches
            put == TasksOf(r)
        IN  /\ Len(put) + Len(requests[r].toPut) = 2 * Len(matches)
            /\ \A i \in 1..Len(matches) :
                   /\ 2 * i - 1 <= Len(put) =>
                          LET t == put[2 * i - 1].task
                          IN  /\ t.contact_number = data.contact
                              /\ t.match_details = matches[i].report
                              /\ t.report_id = data.oid
                   /\ 2 * i <= Len(put) =>
                          LET t == put[2 * i].task
                          IN  /\ t.contact_number = matches[i].report.contact
                              /\ t.match_details = data
                              /\ t.report_id = matches[i].report.oid
                              /\ t.similarity_score = put[2 * i - 1].task.similarity_score

\* a handler has answered 200 after two matches and four puts, with a manual
\* notification put in between
C11_Witness ==
    \E r \in Requests :
        /\ requests[r].handler \in Submits
        /\ requests[r].pc = "done" /\ requests[r].code = 200
        /\ Len(requests[r].matches) = 2
        /\ Len(TasksOf(r)) = 4
        /\ \E i \in 2..(Len(enqueued) - 1) : enqueued[i].req # r

\* request r is a submission whose read of the existing reports has returned
HasRead(r) ==
    /\ requests[r].handler \in Submits
    /\ requests[r].pc \in {"matched", "put", "done"}
    /\ requests[r].code \notin {4, 400, 500}

\* two submissions to the same collection with opposite report types
Opposite(a, b) ==
    /\ requests[a].handler = requests[b].handler
    /\ requests[a].data.report_type # requests[b].data.report_type

\* the read of submission a contained the report of submission b
Sees(a, b) ==
    \E i \in 1..Len(requests[a].existing) :
        requests[a].existing[i] = requests[b].data.oid

\* C12 as stated: two opposite-type submissions of one category run at the
\* same time and the read of the first did not contain the report of the
\* second (a snapshot from before that insert); then the read of the second
\* does not contain the report of the first either, and neither matches the
\* other.
C12_BothReadsMissEachOther ==
    \A a, b \in Requests :
        (/\ a # b /\ HasRead(a) /\ HasRead(b) /\ Opposite(a, b)
         /\ requests[a].pc = "matched"
         /\ ~Sees(a, b))
        => ~Sees(b, a)

\* C12 (amended): each handler inserts its report before it reads, so of two
\* opposite-type submissions of one category that have both read, at least
\* one read contains the other's report; no interleaving lets both miss.
C12_OneReadSeesTheOther ==
    \A a, b \in Requests :
        (a # b /\ HasRead(a) /\ HasRead(b) /\ Opposite(a, b))
        => (Sees(a, b) \/ Sees(b, a))

\* the first submission has read without the second's report and has not
\* answered yet; the second has read, and its read holds the first's report
C12_Witness ==
    \E a, b \in Requests :
        /\ a # b /\ HasRead(a) /\ HasRead(b) /\ Opposite(a, b)
        /\ requests[a].pc = "matched"
        /\ ~Sees(a, b)
        /\ Sees(b, a)

\* C13: the pending record is written before the send: whenever
\* send_whatsapp_message is about to be called or has been called for a
\* task, a record of that task exists and was written as pending; a task
\* whose insert failed has no record and is never sent.
C13_RecordBeforeSend ==
    /\ \A w \in WorkerThreads :
           w_pc[w] = "send" =>
               /\ w_nid[w] \in 1..Len(notifications)
               /\ notifications[w_nid[w]].tid = w_cur[w].tid
               /\ notifications[w_nid[w]].status = "pending"
    /\ \A i \in 1..Len(sends) :
           \E j \in 1..Len(notifications) :
               /\ notifications[j].tid = sends[i].tid
               /\ Head(notifications[j].hist) = "pending"
    /\ \A tid \in DOMAIN results : ~HasRecord(tid) => SendCount(tid) = 0

\* one task was sent after its record was written, and the dispatch of
\* another ended on a failed insert, without a record and without a send
C13_Witness ==
    /\ \E i \in 1..Len(sends) : HasRecord(sends[i].tid)
    /\ \E tid \in DOMAIN results :
           /\ IsDict(enqueued[tid].task.match_details)
           /\ ~HasRecord(tid)
           /\ SendCount(tid) = 0

\* the status of the notification record of task tid
StatusOf(tid) ==
    LET j == CHOOSE j \in 1..Len(notifications) : notifications[j].tid = tid
    IN  notifications[j].status

\* C14 as stated: once send_match_notification has returned for a task it
\* sent, its result is the outcome of send_whatsapp_message, and the record
\* is sent when the send succeeded and failed when it did not, also when a
\* store operation raised during the dispatch.
C14_ResultAndStatusFollowTheSend ==
    \A i \in 1..Len(sends) :
        LET tid == sends[i].tid
        IN  (tid \in DOMAIN results /\ results[tid] \in {"True", "False"}) =>
                /\ (results[tid] = "True") = sends[i].success
                /\ StatusOf(tid) = (IF sends[i].success THEN "sent" ELSE "failed")

-----------------------------------------------------------------------------
(* Further properties of the matchers (SpecMatch) *)

\* report y is report x with a gender filled in
GenderAdded(x, y) ==
    /\ x.gender = <<>>
    /\ y.gender # <<>>
    /\ [y EXCEPT !.gender = <<>>, !.contact = "", !.oid = 0]
           = [x EXCEPT !.contact = "", !.oid = 0]

\* C15: the score is not monotone in the evidence. When an existing report
\* gains a gender that matches the new report's perfectly, one more factor
\* counts and 0.2 is added before the division, so the final score is
\* strictly lower whenever it was above 0.2 without the gender: a pair that
\* matches on name only scores higher than the same pair matching on name
\* and gender.
C15_MatchingGenderLowersScore ==
    (m_pc = "done" /\ m_kind = "person") =>
        \A i, j \in 1..Len(m_existing) :
            (/\ GenderAdded(m_existing[i], m_existing[j])
             /\ lower(m_existing[j].gender) = lower(m_new.gender)
             /\ ~m_evals[i].skipped
             /\ m_evals[i].factors > 0) =>
                /\ m_evals[j].factors = m_evals[i].factors + 1
                /\ m_evals[j].score = RAdd(m_evals[i].score, Rat(2, 10))
                /\ RGt(m_evals[i].final, Rat(2, 10)) =>
                       RGt(m_evals[i].final, m_evals[j].final)

\* the pair matching on name only scores 0.4, the same pair matching on name
\* and gender 0.3
C15_Witness ==
    /\ m_pc = "done" /\ m_kind = "person"
    /\ \E i, j \in 1..Len(m_existing) :
          /\ GenderAdded(m_existing[i], m_existing[j])
          /\ lower(m_existing[j].gender) = lower(m_new.gender)
          /\ m_evals[i].factors = 1 /\ m_evals[i].final = Rat(4, 10)
          /\ m_evals[j].factors = 2 /\ m_evals[j].final = Rat(3, 10)

\* the largest weight of a factor: 0.4 (name) for persons, 0.25 (category,
\* color) for items
LargestWeight == IF m_kind = "person" THEN Rat(4, 10) ELSE Rat(25, 100)

\* C16: match_persons and match_items return the empty list on every input:
\* the final score, a sum of contributions of at most the largest weight
\* each divided by their number, never exceeds that weight and so never
\* passes 0.55. Hence submit_person and submit_item find no match and put
\* nothing on the queue; every task on it was put by notify_manual_match.
C16_MatchersReturnNothing ==
    /\ m_pc = "done" =>
           /\ m_result = <<>>
           /\ \A i \in 1..Len(m_existing) :
                  /\ RLe(m_evals[i].final, LargestWeight)
                  /\ ~m_evals[i].keep
    /\ \A r \in Requests :
           requests[r].handler \in Submits =>
               requests[r].matches = <<>> /\ requests[r].toPut = <<>>
    /\ \A i \in 1..Len(enqueued) :
           requests[enqueued[i].req].handler = "notify_manual_match"

\* a pair reaches the largest score there is, 0.4, and nothing is returned
C16_Witness ==
    /\ m_pc = "done"
    /\ \E i \in 1..Len(m_existing) :
          m_evals[i].factors > 0 /\ m_evals[i].final = LargestWeight
    /\ m_result = <<>>

-----------------------------------------------------------------------------
(* Further properties of the pipeline (Spec, FairSpec) *)

\* the collection a submit handler writes to
CollectionOf(r) ==
    IF requests[r].handler = "submit_person" THEN person_reports ELSE item_reports

\* the report of submission r is stored with status active
StoredActive(r) ==
    \E i \in 1..Len(CollectionOf(r)) :
        /\ CollectionOf(r)[i].oid = requests[r].data.oid
        /\ CollectionOf(r)[i] = requests[r].data
        /\ CollectionOf(r)[i].status = "active"

\* C17: a submit handler inserts its report before it reads and matches the
\* existing ones: while the read is still ahead the report is stored, and
\* when the read or the matching raises, the handler answers 500, the report
\* stays stored with status active, and the handler has enqueued nothing.
C17_ReadErrorKeepsReport ==
    \A r \in Requests :
        /\ (requests[r].handler \in Submits /\ requests[r].pc = "inserted") =>
               StoredActive(r)
        /\ requests[r].code = 500 =>
               /\ requests[r].handler \in Submits
               /\ requests[r].pc = "done"
               /\ StoredActive(r)
               /\ requests[r].toPut = <<>>
               /\ TasksOf(r) = <<>>

\* a submission has answered 500 and its report is stored
C17_Witness ==
    \E r \in Requests :
        /\ requests[r].handler \in Submits
        /\ requests[r].code = 500
        /\ StoredActive(r)

\* task tid waits in the queue of a running worker with no sentinel ahead
Waiting(tid) ==
    /\ \A w \in WorkerThreads : w_pc[w] # "stopped"
    /\ \E i \in 1..Len(notification_queue) :
           /\ IsTask(notification_queue[i])
           /\ notification_queue[i].tid = tid
           /\ \A k \in 1..(i - 1) : IsTask(notification_queue[k])

Dispatched(tid) == \E i \in 1..Len(dispatched) : dispatched[i] = tid

Pending(j) == j <= Len(notifications) /\ notifications[j].status = "pending"

Settled(j) == j <= Len(notifications) /\ notifications[j].status \in {"sent", "failed"}

\* the part of C18 about the queue: with a fair worker, every task that waits
\* with no sentinel ahead is eventually dequeued and dispatched
TasksEventuallyDispatched ==
    \A tid \in 1..MaxRequests : Waiting(tid) ~> Dispatched(tid)

\* C18 as stated: with a fair worker, every task enqueued with no sentinel
\* ahead of it is eventually dequeued and dispatched, and every record
\* written as pending eventually becomes sent or failed; none stays pending
\* forever.
C18_DispatchedAndSettled ==
    /\ \A tid \in 1..MaxRequests : Waiting(tid) ~> Dispatched(tid)
    /\ \A j \in 1..MaxRequests : Pending(j) ~> Settled(j)
====
